---- MODULE Spec2Model ----
(***************************************************************************)
(* The CSV-to-MongoDB loader of CodeGenesis-TEAM.  Two scripts share the   *)
(* loader: src/Project/data_to_mongo.py (menu with "0. Load all data", no  *)
(* running totals) and src/notebooks/data_to_mongo.py (menu of single     *)
(* files, total_inserted / total_errors, post-insertion validation).      *)
(* The variable `variant` says which of the two scripts is running.        *)
(* src/Scripts/DataProcess.py, the script that merges the four datasets    *)
(* and plots them, is modelled by the variables listed last.               *)
(***************************************************************************)
EXTENDS Integers, Sequences, FiniteSets, TLC

\* ---- bounds of the model ------------------------------------------------
MaxRecords == 5      \* most data rows a CSV file holds
MaxBatch == 3        \* largest batch_size passed to load_csv_to_mongo
MaxAllRecords == 2   \* most data rows of a file in a "load all" run
MaxPreexisting == 1  \* most documents a collection holds before the run
MaxRows == 3         \* most rows of the column studied cell by cell
MaxNegBatch == 2     \* how far below zero a batch_size passed directly goes
MaxEtlRows == 2      \* most rows of each dataset handed to merge_datasets

\* ---- program constants --------------------------------------------------
NumJobs == 4         \* len(csv_files): the mapping of main() has four entries
NumPlots == 7        \* perform_analysis has seven plot steps, each in its own try

Variants == {"Project", "notebooks"}
Jobs == 1..NumJobs
BatchSizes == 1..MaxBatch

\* What input("Your choice: ") may return: text int() rejects, or a number.
MenuInputs ==
    {[numeric |-> FALSE, n |-> 0]} \cup
    {[numeric |-> TRUE, n |-> k] : k \in -1..(NumJobs + 1)}

VARIABLES
    variant,         \* which script runs
    mongo_uri,       \* os.getenv("MONGO_URI"): "unset", "empty" or "set"
    database_name,   \* os.getenv("DATABASE_NAME"): "unset", "empty" or "set"
    pc,              \* position: import, menu, open, call, detect, loop, return, done
    result,          \* how the run ended: "running", "returned", "raised", "config_error"
    choice,          \* what input() returned: << >> before the menu was answered
    mode,            \* "none", "all" (choice 0) or "single"
    job,             \* index in the mapping of the job being loaded
    clientOpen,      \* the MongoClient of the with-block is open
    opens,           \* how many MongoClient objects main() has constructed
    severed,         \* the connection to the store is down
    attempted,       \* the jobs load_csv_to_mongo was called for, in call order
    outcome,         \* per job: pending, running, skipped, critical, completed
    batch_size,      \* parameter batch_size of load_csv_to_mongo
    data_records,    \* df.to_dict(orient="records") of the current job
    dup,             \* the records of the current file the store rejects (unique index)
    i,               \* loop variable of range(0, len(data_records), batch_size)
    total_inserted,  \* notebooks only
    total_errors,    \* notebooks only
    submitted,       \* the insert_many calls of the current job, in order
    stored,          \* per job: the records its collection received in this run
    file,            \* what the source path of the current job is: a kind of FileKinds
    validation,      \* post-insertion validation of the current job: none, ok, failed, error
    count_in_db,     \* collection.estimated_document_count() of the validation
    summary,         \* the counts the closing log lines of main() carry
    sample,          \* what csvfile.read(1024) and the sniffer make of the file
    delimiter,       \* the value detect_delimiter returned
    table,           \* the column of the file under study: its name and its raw cells
    df,              \* that column of the DataFrame after read_csv, where and conversion
    stage,           \* position in DataProcess.py: idle, merge, filtered, check, plot, ...
    covid_death_vacc,            \* rows (Entity, Year) of the cleaned COVID dataset
    oecd_health,                 \* rows (Country_Code, Year) of the cleaned OECD dataset
    covid_death_vacc_countries,  \* the COVID rows kept by the country filter
    merged,          \* the rows merge_datasets returns
    merged_df,       \* the table perform_analysis is given: empty or not, its key columns
    plots            \* the plot steps perform_analysis attempted, in order

cfgVars == <<mongo_uri, database_name>>
checkVars == <<validation, count_in_db>>
tableVars == <<sample, delimiter, table, df>>
etlVars == <<stage, covid_death_vacc, oecd_health, covid_death_vacc_countries, merged,
             merged_df, plots>>

vars == <<variant, pc, result, choice, mode, job, clientOpen, opens, severed, attempted, outcome,
          batch_size, data_records, dup, i, total_inserted, total_errors,
          submitted, stored, file, summary, cfgVars, checkVars, tableVars, etlVars>>

\* ---- pure helpers -------------------------------------------------------
Min(a, b) == IF a <= b THEN a ELSE b

CeilDiv(n, b) == (n + b - 1) \div b

Range(s) == {s[k] : k \in 1..Len(s)}

\* variant of BatchSlice: the slice starts one record early, data_records[i - 1 : i + batch_size]
BatchSliceOverlap(records, lo, b) ==
    SubSeq(records, IF lo = 0 THEN 1 ELSE lo, Min(lo + b, Len(records)))

\* data_records[i : i + batch_size], i 0-based
BatchSlice(records, lo, b) == SubSeq(records, lo + 1, Min(lo + b, Len(records)))

\* the step of range(0, len(data_records), batch_size)
NextIndex(lo, b) == lo + b

\* i // batch_size + 1, the batch number of the log lines
BatchNumber(lo, b) == (lo \div b) + 1

\* len(result.inserted_ids) is added to total_inserted after a successful insert
InsertedOnSuccess(batch) == Len(batch)

\* variant of InsertedOnBulkError: the whole batch is counted as inserted
InsertedWholeBatchOnBulkError(batch, rejected) == Len(batch)

\* except BulkWriteError: total_inserted is left alone
InsertedOnBulkError(batch, rejected) == 0

\* except BulkWriteError: total_errors += len(write_errors)
ErrorsOnBulkError(batch, rejected) == Cardinality(rejected)

\* variant of ErrorsOnGeneralError: the failed batch counts as one error
ErrorsOnGeneralErrorOne(batch) == 1

\* variant of ErrorsOnGeneralError: the whole file counts as failed
ErrorsOnGeneralErrorFile(batch) == Len(data_records)

\* except Exception: total_errors += len(batch)
ErrorsOnGeneralError(batch) == Len(batch)

\* variant of PcAfterGeneralError: the exception leaves the loop
PcAbortOnGeneralError == "return"

\* both except clauses of the batch loop end the iteration, not the loop
PcAfterBulkError == "loop"
PcAfterGeneralError == "loop"

\* variant of WrittenUnordered: ordered=True, the store stops at the first rejected record
WrittenOrdered(batch, rejected) ==
    {batch[k] : k \in {m \in 1..Len(batch) : \A j \in 1..m : batch[j] \notin rejected}}

\* insert_many(batch, ordered=False): every record the store does not reject is written
WrittenUnordered(batch, rejected) == Range(batch) \ rejected

\* variant of StoredAfterGeneralError: the failed batch rolls the job's inserts back
StoredRolledBack(docs) == docs \ docs

\* except Exception: the handler only counts and logs; no delete, no abort of
\* a transaction: what the collection holds stays
StoredAfterGeneralError(docs) == docs

\* the totals exist in the notebooks loader only
Counted(n) == IF variant = "notebooks" THEN n ELSE 0

\* ---- initial state: main() is about to print the menu -------------------
\* os.getenv returns None for an unset variable and may return ""
EnvValues == {"unset", "empty", "set"}

EmptyTable == [name |-> "", cells |-> << >>]

\* DataProcess.py is a script of its own: while a loader runs it is not running
NoTable == [empty |-> TRUE, columns |-> << >>]

EtlIdle ==
    /\ stage = "idle"
    /\ covid_death_vacc = {}
    /\ oecd_health = {}
    /\ covid_death_vacc_countries = {}
    /\ merged = {}
    /\ merged_df = NoTable
    /\ plots = << >>

Init ==
    /\ variant \in Variants
    /\ batch_size \in BatchSizes
    /\ mongo_uri \in EnvValues
    /\ database_name \in EnvValues
    /\ pc = "import"
    /\ file = "none"
    /\ validation = "none"
    /\ count_in_db = 0
    /\ summary = << >>
    /\ sample = "none"
    /\ delimiter = "none"
    /\ table = EmptyTable
    /\ df = << >>
    /\ EtlIdle
    /\ result = "running"
    /\ choice = << >>
    /\ mode = "none"
    /\ job = 1
    /\ clientOpen = FALSE
    /\ opens = 0
    /\ severed = FALSE
    /\ attempted = << >>
    /\ outcome = [j \in Jobs |-> "pending"]
    /\ data_records = << >>
    /\ dup = {}
    /\ i = 0
    /\ total_inserted = 0
    /\ total_errors = 0
    /\ submitted = << >>
    /\ stored = [j \in Jobs |-> {}]

jobVars == <<data_records, dup, i, total_inserted, total_errors, submitted>>

\* ---- module level: the configuration check -------------------------------
\* variant of ConfigComplete: only None counts as absent
ConfigCompleteNotNone(uri, db) == uri # "unset" /\ db # "unset"

\* not (not MONGO_URI or not DATABASE_NAME): None and "" are both falsy
ConfigComplete(uri, db) == uri = "set" /\ db = "set"

\* The module is executed: load_dotenv, os.getenv, then either EnvironmentError
\* is raised (the process ends before main() is called) or main() is entered.
StartUp ==
    /\ pc = "import"
    /\ pc' = IF ConfigComplete(mongo_uri, database_name) THEN "menu" ELSE "done"
    /\ result' = IF ConfigComplete(mongo_uri, database_name) THEN "running" ELSE "config_error"
    /\ UNCHANGED <<variant, mode, job, clientOpen, opens, severed, attempted, outcome,
                   batch_size, jobVars, stored, file, summary, cfgVars, etlVars, choice, checkVars,
                   tableVars>>

\* ---- main(): the menu ----------------------------------------------------
\* Project: choice == 0 loads all, 1 <= choice <= len(csv_files) loads one,
\* anything else prints "Invalid selection."; int() raising ValueError prints
\* "Please enter a number.".  notebooks: only 1 <= user_choice <= len(choices).
ModeOfChoice(v, inp) ==
    IF ~inp.numeric THEN "none"
    ELSE IF v = "Project" /\ inp.n = 0 THEN "all"
    ELSE IF 1 <= inp.n /\ inp.n <= NumJobs THEN "single"
    ELSE "none"

ReadChoice ==
    /\ pc = "menu"
    /\ \E inp \in MenuInputs :
         LET m == ModeOfChoice(variant, inp) IN
         /\ choice' = <<inp>>
         /\ mode' = m
         /\ job' = IF m = "single" THEN inp.n ELSE 1
         /\ pc' = IF m = "none" THEN "done" ELSE "open"
         /\ result' = IF m = "none" THEN "returned" ELSE "running"
    /\ UNCHANGED <<variant, clientOpen, opens, severed, attempted, outcome, batch_size,
                   jobVars, stored,
                   file, summary, cfgVars, etlVars, checkVars, tableVars>>

\* ---- main(): with MongoClient(MONGO_URI, tlsCAFile=certifi.where()) ------
OpenClientOk ==
    /\ pc = "open"
    /\ clientOpen' = TRUE
    /\ opens' = opens + 1
    /\ pc' = "call"
    /\ UNCHANGED <<variant, result, mode, job, severed, attempted, outcome,
                   batch_size, jobVars, stored,
                   file, summary, cfgVars, etlVars, choice, checkVars, tableVars>>

\* The constructor raises (InvalidURI, ConfigurationError, ...).  Project's main
\* has "except Exception" around the menu execution; notebooks' main has no
\* handler around the with-statement.
ResultOfOpenFailure(v) == IF v = "Project" THEN "returned" ELSE "raised"

OpenClientFails ==
    /\ pc = "open"
    /\ pc' = "done"
    /\ result' = ResultOfOpenFailure(variant)
    /\ UNCHANGED <<variant, mode, job, clientOpen, opens, severed, attempted, outcome,
                   batch_size, jobVars, stored,
                   file, summary, cfgVars, etlVars, choice, checkVars, tableVars>>

\* ---- load_csv_to_mongo: validation and parsing ---------------------------
\* What a source path can be when load_csv_to_mongo is called.
FileKinds == {"missing", "unreadable", "unparseable", "readable"}

\* variant of validate_csv_file: only os.path.exists is checked
validate_exists_only(f) == f # "missing"

\* os.path.exists(file_path) and os.access(file_path, os.R_OK)
validate_csv_file(f) == f # "missing" /\ f # "unreadable"

\* validate_csv_file returns False: the function returns at once.
SkipFile ==
    /\ pc = "call"
    /\ \E f \in FileKinds : ~validate_csv_file(f) /\ file' = f
    /\ validation' = "none"
    /\ count_in_db' = 0
    /\ attempted' = Append(attempted, job)
    /\ outcome' = [outcome EXCEPT ![job] = "skipped"]
    /\ pc' = "return"
    /\ data_records' = << >>
    /\ dup' = {}
    /\ i' = 0
    /\ total_inserted' = 0
    /\ total_errors' = 0
    /\ submitted' = << >>
    /\ UNCHANGED <<variant, result, mode, job, clientOpen, opens, severed, batch_size, stored,
                   summary, cfgVars, etlVars, choice, tableVars>>

\* pd.read_csv (or a later step before the loop) raises: the outer
\* "except Exception" logs the critical error and the function returns.
ParseFails ==
    /\ pc = "call"
    /\ \E f \in FileKinds : validate_csv_file(f) /\ f # "readable" /\ file' = f
    /\ validation' = "none"
    /\ count_in_db' = 0
    /\ attempted' = Append(attempted, job)
    /\ outcome' = [outcome EXCEPT ![job] = "critical"]
    /\ pc' = "return"
    /\ data_records' = << >>
    /\ dup' = {}
    /\ i' = 0
    /\ total_inserted' = 0
    /\ total_errors' = 0
    /\ submitted' = << >>
    /\ UNCHANGED <<variant, result, mode, job, clientOpen, opens, severed, batch_size, stored,
                   summary, cfgVars, etlVars, choice, tableVars>>

\* The file is read: n data rows, row k of the file is record k; the rows in
\* d collide with a unique index of the destination collection.
RecordLimit == IF mode = "all" THEN MaxAllRecords ELSE MaxRecords

\* variant of InitialTotal: the counters start at one
InitialTotalOffByOne == Len(<< >>) + 1

\* total_inserted = 0 and total_errors = 0 before the loop
InitialTotal == 0

ReadFile ==
    /\ pc = "call"
    /\ validate_csv_file("readable")
    /\ file' = "readable"
    /\ validation' = "none"
    /\ count_in_db' = 0
    /\ attempted' = Append(attempted, job)
    /\ outcome' = [outcome EXCEPT ![job] = "running"]
    /\ \E n \in 0..RecordLimit :
         /\ data_records' = [k \in 1..n |-> k]
         /\ \E d \in SUBSET (1..n) : dup' = d
    /\ i' = 0
    /\ total_inserted' = Counted(InitialTotal)
    /\ total_errors' = Counted(InitialTotal)
    /\ submitted' = << >>
    /\ pc' = "loop"
    /\ UNCHANGED <<variant, result, mode, job, clientOpen, opens, severed, batch_size, stored,
                   summary, cfgVars, etlVars, choice, tableVars>>

\* ---- load_csv_to_mongo: the batch loop -----------------------------------
\* variant of LoopExhausted: the loop is left after its first iteration
LoopExhaustedAfterFirst == i >= Min(batch_size, Len(data_records))

\* variant of LoopExhausted: the bound is tested with > instead of >=
LoopExhaustedInclusive == i > Len(data_records)

\* variant of LoopExhausted: the sign of the step is not looked at
LoopExhaustedIgnoringSign == i >= Len(data_records)

\* range(0, len(data_records), batch_size) yields no further index: a positive
\* step stops at i >= stop, a negative step at i <= stop
LoopExhausted ==
    IF batch_size > 0 THEN i >= Len(data_records) ELSE i <= Len(data_records)

Batch == BatchSlice(data_records, i, batch_size)

Submission(kind) ==
    [index |-> BatchNumber(i, batch_size), batch |-> Batch, result |-> kind]

\* insert_many returns: every record of the batch was written.
InsertOk ==
    /\ pc = "loop"
    /\ ~LoopExhausted
    /\ ~severed
    /\ Range(Batch) \cap dup = {}
    /\ submitted' = Append(submitted, Submission("ok"))
    /\ stored' = [stored EXCEPT ![job] = @ \cup Range(Batch)]
    /\ total_inserted' = total_inserted + Counted(InsertedOnSuccess(Batch))
    /\ i' = NextIndex(i, batch_size)
    /\ UNCHANGED <<variant, pc, result, mode, job, clientOpen, opens, severed, attempted,
                   outcome, batch_size, data_records, dup, total_errors,
                   file, summary, cfgVars, etlVars, choice, checkVars, tableVars>>

\* insert_many raises BulkWriteError: one write error per rejected record, the
\* other records of the batch are written (ordered=False).
InsertBulkError ==
    /\ pc = "loop"
    /\ ~LoopExhausted
    /\ ~severed
    /\ Range(Batch) \cap dup # {}
    /\ LET rejected == Range(Batch) \cap dup IN
         /\ submitted' = Append(submitted, Submission("bulk"))
         /\ stored' = [stored EXCEPT ![job] = @ \cup WrittenUnordered(Batch, rejected)]
         /\ total_inserted' = total_inserted + Counted(InsertedOnBulkError(Batch, rejected))
         /\ total_errors' = total_errors + Counted(ErrorsOnBulkError(Batch, rejected))
    /\ i' = NextIndex(i, batch_size)
    /\ pc' = PcAfterBulkError
    /\ UNCHANGED <<variant, result, mode, job, clientOpen, opens, severed, attempted,
                   outcome, batch_size, data_records, dup,
                   file, summary, cfgVars, etlVars, choice, checkVars, tableVars>>

\* insert_many raises any other exception (connection down, timeout, ...):
\* nothing of the batch is written.
InsertGeneralError ==
    /\ pc = "loop"
    /\ ~LoopExhausted
    /\ submitted' = Append(submitted, Submission("error"))
    /\ total_errors' = total_errors + Counted(ErrorsOnGeneralError(Batch))
    /\ i' = NextIndex(i, batch_size)
    /\ pc' = PcAfterGeneralError
    /\ stored' = [stored EXCEPT ![job] = StoredAfterGeneralError(@)]
    /\ UNCHANGED <<variant, result, mode, job, clientOpen, opens, severed, attempted,
                   outcome, batch_size, data_records, dup, total_inserted,
                   file, summary, cfgVars, etlVars, choice, checkVars, tableVars>>

\* The environment: the connection to the store goes down while the client
\* is open; from then on every insert raises.
Sever ==
    /\ clientOpen
    /\ ~severed
    /\ pc \in {"call", "loop"}
    /\ severed' = TRUE
    /\ UNCHANGED <<variant, pc, result, mode, job, clientOpen, opens, attempted, outcome,
                   batch_size, jobVars, stored,
                   file, summary, cfgVars, etlVars, choice, checkVars, tableVars>>

\* notebooks goes on to the post-insertion validation, Project returns
PcAfterCompletion(v) == IF v = "notebooks" THEN "validate" ELSE "return"

\* The range is exhausted: "Completed migration" is logged.
FinishJob ==
    /\ pc = "loop"
    /\ batch_size # 0
    /\ LoopExhausted
    /\ outcome' = [outcome EXCEPT ![job] = "completed"]
    /\ pc' = PcAfterCompletion(variant)
    /\ UNCHANGED <<variant, result, mode, job, clientOpen, opens, severed, attempted,
                   batch_size, jobVars, stored,
                   file, summary, cfgVars, etlVars, choice, checkVars, tableVars>>

\* ---- load_csv_to_mongo (notebooks): post-insertion validation -------------
\* variant of ValidationOf: the count is compared with the records read
ValidationOfStrict(count, expected, errors) ==
    IF count >= expected THEN "ok" ELSE "failed"

\* count_in_db >= expected_count - total_errors
ValidationOf(count, expected, errors) ==
    IF count >= expected - errors THEN "ok" ELSE "failed"

\* estimated_document_count() returns: documents of earlier runs may be in
\* the collection and other clients may have removed documents meanwhile.
\* The result is logged at info or warning level.
ValidateCount ==
    /\ pc = "validate"
    /\ ~severed
    /\ \E c \in 0..(Cardinality(stored[job]) + MaxPreexisting) :
         /\ count_in_db' = c
         /\ validation' = ValidationOf(c, Len(data_records), total_errors)
    /\ pc' = "return"
    /\ UNCHANGED <<variant, result, mode, job, clientOpen, opens, severed, attempted,
                   outcome, batch_size, jobVars, stored, file, summary, cfgVars, etlVars, choice,
                   tableVars>>

\* variant of OutcomeAfterCountError: the exception reaches the outer handler
OutcomeCriticalAfterCountError == "critical"

\* the inner "except Exception" logs the error; the job stays completed
OutcomeAfterCountError == "completed"

\* estimated_document_count() raises
ValidateCountFails ==
    /\ pc = "validate"
    /\ validation' = "error"
    /\ outcome' = [outcome EXCEPT ![job] = OutcomeAfterCountError]
    /\ pc' = "return"
    /\ UNCHANGED <<variant, result, mode, job, clientOpen, opens, severed, attempted,
                   batch_size, jobVars, stored, file, summary, cfgVars, etlVars, choice, count_in_db,
                   tableVars>>

\* variant of HasNextJob: the loop over the mapping stops once the connection is down
HasNextJobUnlessSevered == mode = "all" /\ job < NumJobs /\ ~severed

\* ---- main(): after load_csv_to_mongo returned -----------------------------
\* Project, choice 0: for file_path, collection_name in csv_files.items()
HasNextJob == mode = "all" /\ job < NumJobs

NextJob ==
    /\ pc = "return"
    /\ HasNextJob
    /\ job' = job + 1
    /\ pc' = "call"
    /\ UNCHANGED <<variant, result, mode, clientOpen, opens, severed, attempted, outcome,
                   batch_size, jobVars, stored,
                   file, summary, cfgVars, etlVars, choice, checkVars, tableVars>>

\* "All data loaded successfully.", "Migration completed." and "Data transfer
\* has been completed." carry no count
ClosingCounts == << >>

\* variant of ClientAfterWith: the client is never closed
ClientLeftOpen == TRUE

\* MongoClient.__exit__ calls close(): after the with statement, however it
\* was left, the client is not open
ClientAfterWith == FALSE

\* the with-block is left: the client is closed, the last log line is written
CloseClient ==
    /\ pc = "return"
    /\ ~HasNextJob
    /\ clientOpen' = ClientAfterWith
    /\ summary' = ClosingCounts
    /\ pc' = "done"
    /\ result' = "returned"
    /\ UNCHANGED <<variant, opens, mode, job, severed, attempted, outcome, batch_size,
                   jobVars, stored,
                   file, cfgVars, etlVars, choice, checkVars, tableVars>>

Next ==
    \/ StartUp
    \/ ReadChoice
    \/ OpenClientOk
    \/ OpenClientFails
    \/ SkipFile
    \/ ParseFails
    \/ ReadFile
    \/ InsertOk
    \/ InsertBulkError
    \/ InsertGeneralError
    \/ Sever
    \/ FinishJob
    \/ ValidateCount
    \/ ValidateCountFails
    \/ NextJob
    \/ CloseClient

Spec == Init /\ [][Next]_vars

\* ---- an exception that escapes a job --------------------------------------
\* KeyboardInterrupt and SystemExit are no subclasses of Exception: raised
\* while a job runs they pass every "except Exception" of load_csv_to_mongo
\* and of main(), the with statement closes the client on the way out, and
\* main() raises.
Interrupt ==
    /\ clientOpen
    /\ pc \in {"call", "loop", "validate", "return"}
    /\ outcome' = [outcome EXCEPT ![job] = IF @ = "running" THEN "interrupted" ELSE @]
    /\ clientOpen' = ClientAfterWith
    /\ pc' = "done"
    /\ result' = "raised"
    /\ UNCHANGED <<variant, opens, mode, job, severed, attempted, batch_size,
                   jobVars, stored, file, summary, cfgVars, etlVars, choice, checkVars, tableVars>>

NextInterrupt ==
    \/ Next
    \/ Interrupt

SpecInterrupt == Init /\ [][NextInterrupt]_vars

\* ---- load_csv_to_mongo called with any batch_size -------------------------
\* main() leaves batch_size at its default; a caller of the function may pass
\* any integer.  The function is entered with an open client.
DirectBatchSizes == (0 - MaxNegBatch)..MaxBatch

InitDirect ==
    /\ variant \in Variants
    /\ batch_size \in DirectBatchSizes
    /\ mongo_uri = "set"
    /\ database_name = "set"
    /\ pc = "call"
    /\ result = "running"
    /\ choice = <<[numeric |-> TRUE, n |-> 1]>>
    /\ mode = "single"
    /\ job = 1
    /\ clientOpen = TRUE
    /\ opens = 1
    /\ severed = FALSE
    /\ attempted = << >>
    /\ outcome = [j \in Jobs |-> "pending"]
    /\ data_records = << >>
    /\ dup = {}
    /\ i = 0
    /\ total_inserted = 0
    /\ total_errors = 0
    /\ submitted = << >>
    /\ stored = [j \in Jobs |-> {}]
    /\ file = "none"
    /\ validation = "none"
    /\ count_in_db = 0
    /\ summary = << >>
    /\ sample = "none"
    /\ delimiter = "none"
    /\ table = EmptyTable
    /\ df = << >>
    /\ EtlIdle

\* range(0, len(data_records), 0) raises ValueError before the first
\* iteration: the outer "except Exception" logs the critical error.
RangeRaises ==
    /\ pc = "loop"
    /\ batch_size = 0
    /\ outcome' = [outcome EXCEPT ![job] = "critical"]
    /\ pc' = "return"
    /\ UNCHANGED <<variant, result, mode, job, clientOpen, opens, severed, attempted,
                   batch_size, jobVars, stored, file, summary, cfgVars, etlVars, choice,
                   checkVars, tableVars>>

NextDirect ==
    \/ SkipFile
    \/ ParseFails
    \/ ReadFile
    \/ RangeRaises
    \/ InsertOk
    \/ InsertBulkError
    \/ InsertGeneralError
    \/ Sever
    \/ FinishJob
    \/ ValidateCount
    \/ ValidateCountFails
    \/ CloseClient

SpecDirect == InitDirect /\ [][NextDirect]_vars

\* ---- the helper functions, cell by cell -----------------------------------
\* A second specification follows one column of one file through
\* detect_delimiter, read_csv, the NaN replacement and convert_datetime_columns
\* and then through the batch loop, against a store that accepts every document.

\* What open(), read(1024) and csv.Sniffer().sniff() make of a path: the
\* first five raise inside detect_delimiter, the last three are sniffed.
SampleFailures == {"missing", "unreadable", "undecodable", "empty", "ambiguous"}
Sniffed == {"comma", "semicolon", "tab"}
SampleKinds == SampleFailures \cup Sniffed

\* variant of detect_delimiter: the except clause returns nothing
detect_delimiter_none(s) ==
    IF s = "comma" THEN "," ELSE IF s = "semicolon" THEN ";"
    ELSE IF s = "tab" THEN "\t" ELSE "none"

\* dialect.delimiter of the sniffed sample, or "," after any exception
detect_delimiter(s) ==
    IF s = "comma" THEN "," ELSE IF s = "semicolon" THEN ";"
    ELSE IF s = "tab" THEN "\t" ELSE ","

\* Column names, as the sequences of their characters.
report_date == <<"r", "e", "p", "o", "r", "t", "_", "d", "a", "t", "e">>
TimeName == <<"T", "i", "m", "e">>
value == <<"v", "a", "l", "u", "e">>
dat_e == <<"d", "a", "t", "_", "e">>
ColumnNames == {report_date, TimeName, value, dat_e}

\* str.lower() on the characters the names use
LowerChar(ch) == IF ch = "T" THEN "t" ELSE IF ch = "D" THEN "d" ELSE ch
Lower(name) == [k \in 1..Len(name) |-> LowerChar(name[k])]

\* pattern in name
Contains(name, pattern) ==
    \E k \in 1..(Len(name) - Len(pattern) + 1) :
        SubSeq(name, k, k + Len(pattern) - 1) = pattern

\* variant of IsDateColumn: the name is searched as written, without lower()
IsDateColumnCaseSensitive(name) ==
    \/ Contains(name, <<"d", "a", "t", "e">>)
    \/ Contains(name, <<"t", "i", "m", "e">>)

\* "date" in col_lower or "time" in col_lower
IsDateColumn(name) ==
    \/ Contains(Lower(name), <<"d", "a", "t", "e">>)
    \/ Contains(Lower(name), <<"t", "i", "m", "e">>)

\* The raw texts of the cells: a blank cell, a cell of one space, and then
\* per kind of column two dates and a text that is no date, or a zero and a word.
DateCells == {"", " ", "2021-03-04", "2021-03-05", "soon"}
PlainCells == {"", " ", "0", "word"}
CellsOf(name) == IF IsDateColumn(name) THEN DateCells ELSE PlainCells

Tables ==
    {[name |-> nm, cells |-> cs] :
        nm \in ColumnNames, cs \in UNION {[1..n -> DateCells \cup PlainCells] : n \in 0..MaxRows}}

\* The cells of a DataFrame: None, a string, or a Timestamp.
None == [kind |-> "none", v |-> ""]
Str(text) == [kind |-> "str", v |-> text]
Timestamp(text) == [kind |-> "ts", v |-> text]

\* pandas' default na_values among the raw texts: read_csv makes them NaN
NaValues == {"", "NA", "N/A", "NULL", "NaN", "nan", "null", "None"}

\* pd.read_csv followed by df.where(pd.notnull(df), None)
ReadCell(text) == IF text \in NaValues THEN None ELSE Str(text)

\* the texts pd.to_datetime parses, and the Timestamp of each
IsDateText(text) == text \in {"2021-03-04", "2021-03-05"}
ParseDate(text) ==
    IF text = "2021-03-04" THEN Timestamp("2021-03-04 00:00:00")
    ELSE Timestamp("2021-03-05 00:00:00")

\* variant of ConvertCell: errors="ignore", a text that is no date is kept
ConvertCellKeepInvalid(c) ==
    IF c.kind = "ts" THEN c
    ELSE IF c.kind = "str" /\ IsDateText(c.v) THEN ParseDate(c.v)
    ELSE c

\* variant of ConvertCell: only strings are parsed, a Timestamp is not
ConvertCellStringsOnly(c) ==
    IF c.kind = "str" /\ IsDateText(c.v) THEN ParseDate(c.v) ELSE None

\* pd.to_datetime(..., errors="coerce") and replace({pd.NaT: None}) on one cell
ConvertCell(c) ==
    IF c.kind = "ts" THEN c
    ELSE IF c.kind = "str" /\ IsDateText(c.v) THEN ParseDate(c.v)
    ELSE None

\* convert_datetime_columns on the column
convert_datetime_columns(name, column) ==
    IF IsDateColumn(name)
    THEN [k \in 1..Len(column) |-> ConvertCell(column[k])]
    ELSE column

\* the column after read_csv, the NaN replacement and the conversion
LoadColumn(t) ==
    convert_datetime_columns(t.name, [k \in 1..Len(t.cells) |-> ReadCell(t.cells[k])])

InitTable ==
    /\ variant = "notebooks"
    /\ batch_size \in BatchSizes
    /\ mongo_uri = "set"
    /\ database_name = "set"
    /\ pc = "detect"
    /\ result = "running"
    /\ choice = <<[numeric |-> TRUE, n |-> 1]>>
    /\ mode = "single"
    /\ job = 1
    /\ clientOpen = TRUE
    /\ opens = 1
    /\ severed = FALSE
    /\ attempted = << >>
    /\ outcome = [j \in Jobs |-> "pending"]
    /\ data_records = << >>
    /\ dup = {}
    /\ i = 0
    /\ total_inserted = 0
    /\ total_errors = 0
    /\ submitted = << >>
    /\ stored = [j \in Jobs |-> {}]
    /\ file = "none"
    /\ validation = "none"
    /\ count_in_db = 0
    /\ summary = << >>
    /\ sample \in SampleKinds
    /\ table \in Tables
    /\ Range(table.cells) \subseteq CellsOf(table.name)
    /\ sample \in {"missing", "unreadable", "undecodable", "empty"} => table.cells = << >>
    /\ delimiter = "none"
    /\ df = << >>
    /\ EtlIdle

\* detect_delimiter(file_path)
DetectDelimiter ==
    /\ pc = "detect"
    /\ delimiter' = detect_delimiter(sample)
    /\ pc' = "call"
    /\ UNCHANGED <<variant, result, mode, job, clientOpen, opens, severed, attempted,
                   outcome, batch_size, jobVars, stored, file, summary, cfgVars, etlVars, choice,
                   checkVars, sample, table, df>>

\* load_csv_to_mongo on a path validate_csv_file rejects
TableSkipped ==
    /\ pc = "call"
    /\ sample \in {"missing", "unreadable"}
    /\ ~validate_csv_file(sample)
    /\ file' = sample
    /\ attempted' = Append(attempted, job)
    /\ outcome' = [outcome EXCEPT ![job] = "skipped"]
    /\ pc' = "return"
    /\ UNCHANGED <<variant, result, mode, job, clientOpen, opens, severed, batch_size,
                   jobVars, stored, summary, cfgVars, etlVars, choice, checkVars, tableVars>>

\* pd.read_csv raises (UnicodeDecodeError, EmptyDataError): critical error
TableUnparseable ==
    /\ pc = "call"
    /\ sample \in {"undecodable", "empty"}
    /\ file' = "unparseable"
    /\ attempted' = Append(attempted, job)
    /\ outcome' = [outcome EXCEPT ![job] = "critical"]
    /\ pc' = "return"
    /\ UNCHANGED <<variant, result, mode, job, clientOpen, opens, severed, batch_size,
                   jobVars, stored, summary, cfgVars, etlVars, choice, checkVars, tableVars>>

\* the file is read with the detected delimiter: one record per row
TableRead ==
    /\ pc = "call"
    /\ sample \in Sniffed \cup {"ambiguous"}
    /\ file' = "readable"
    /\ attempted' = Append(attempted, job)
    /\ outcome' = [outcome EXCEPT ![job] = "running"]
    /\ df' = LoadColumn(table)
    /\ data_records' = [k \in 1..Len(table.cells) |-> k]
    /\ dup' = {}
    /\ i' = 0
    /\ total_inserted' = Counted(InitialTotal)
    /\ total_errors' = Counted(InitialTotal)
    /\ submitted' = << >>
    /\ pc' = "loop"
    /\ UNCHANGED <<variant, result, mode, job, clientOpen, opens, severed, batch_size,
                   stored, summary, cfgVars, etlVars, choice, checkVars, sample, delimiter, table>>

NextTable ==
    \/ DetectDelimiter
    \/ TableSkipped
    \/ TableUnparseable
    \/ TableRead
    \/ InsertOk
    \/ FinishJob
    \/ ValidateCount
    \/ CloseClient

SpecTable == InitTable /\ [][NextTable]_vars

\* ---- src/Scripts/DataProcess.py: merge_datasets ---------------------------
loaderVars == <<variant, pc, result, choice, mode, job, clientOpen, opens, severed,
                attempted, outcome, batch_size, jobVars, stored, file, summary,
                cfgVars, checkVars, tableVars>>

\* no loader script is running while DataProcess.py runs
LoaderIdle ==
    /\ variant = "Project"
    /\ batch_size = MaxBatch
    /\ mongo_uri = "set"
    /\ database_name = "set"
    /\ pc = "done"
    /\ result = "returned"
    /\ choice = << >>
    /\ mode = "none"
    /\ job = 1
    /\ clientOpen = FALSE
    /\ opens = 0
    /\ severed = FALSE
    /\ attempted = << >>
    /\ outcome = [j \in Jobs |-> "pending"]
    /\ data_records = << >>
    /\ dup = {}
    /\ i = 0
    /\ total_inserted = 0
    /\ total_errors = 0
    /\ submitted = << >>
    /\ stored = [j \in Jobs |-> {}]
    /\ file = "none"
    /\ validation = "none"
    /\ count_in_db = 0
    /\ summary = << >>
    /\ sample = "none"
    /\ delimiter = "none"
    /\ table = EmptyTable
    /\ df = << >>

\* A code value of the column Country_Code: a string, or NaN (a float)
CodeOf(chars) == [isstr |-> TRUE, chars |-> chars]
NaN == [isstr |-> FALSE, chars |-> << >>]

\* custom_mappings: the regions and income groupings, and the territories
\* pycountry does not know by the name the dataset uses (Kosovo stands for them)
custom_mappings ==
    [e \in {"Africa", "Asia", "Europe", "European Union (27)", "North America",
            "Oceania", "South America", "World", "Low-income countries",
            "Lower-middle-income countries", "Upper-middle-income countries",
            "High-income countries", "Kosovo"} |->
        CASE e = "Africa" -> <<"A", "F", "R">>
          [] e = "Asia" -> <<"A", "S", "I", "A">>
          [] e = "Europe" -> <<"E", "U", "R">>
          [] e = "European Union (27)" -> <<"E", "U", "2", "7">>
          [] e = "North America" -> <<"N", "A", "M">>
          [] e = "Oceania" -> <<"O", "C", "E">>
          [] e = "South America" -> <<"S", "A", "M">>
          [] e = "World" -> <<"W", "O", "R", "L", "D">>
          [] e = "Low-income countries" -> <<"L", "O", "W">>
          [] e = "Lower-middle-income countries" -> <<"L", "M", "I", "C">>
          [] e = "Upper-middle-income countries" -> <<"U", "M", "I", "C">>
          [] e = "High-income countries" -> <<"H", "I", "G", "H">>
          [] e = "Kosovo" -> <<"X", "K", "X">>]

\* pycountry.countries.lookup(entity).alpha_3 for the names it knows
pycountry_alpha_3 ==
    [e \in {"France", "Namibia"} |->
        IF e = "France" THEN <<"F", "R", "A">> ELSE <<"N", "A", "M">>]

\* the values of the column Entity: the keys above and a name nobody knows
Entities == DOMAIN custom_mappings \cup DOMAIN pycountry_alpha_3 \cup {"Atlantis"}

\* the values of REF_AREA: two countries and an aggregate
OecdCodes == {<<"F", "R", "A">>, <<"N", "A", "M">>, <<"O", "E", "C", "D">>}

Years == {2020, 2021}

\* get_country_code_mapping on one entity
get_country_code_mapping(entity) ==
    IF entity \in DOMAIN custom_mappings THEN CodeOf(custom_mappings[entity])
    ELSE IF entity \in DOMAIN pycountry_alpha_3 THEN CodeOf(pycountry_alpha_3[entity])
    ELSE NaN

\* lambda x: isinstance(x, str) and len(x) == 3
IsCountryCode(x) == x.isstr /\ Len(x.chars) = 3

CovidRows == {[Entity |-> e, Year |-> y] : e \in Entities, y \in Years}
OecdRows == {[Country_Code |-> c, Year |-> y] : c \in OecdCodes, y \in Years}
\* the subsets of S of at most n elements
RECURSIVE UpTo(_, _)
UpTo(S, n) ==
    IF n = 0 THEN {{}}
    ELSE LET smaller == UpTo(S, n - 1) IN smaller \cup {T \cup {x} : T \in smaller, x \in S}

InitMerge ==
    /\ LoaderIdle
    /\ stage = "merge"
    /\ covid_death_vacc \in UpTo(CovidRows, MaxEtlRows)
    /\ oecd_health \in UpTo(OecdRows, MaxEtlRows)
    /\ covid_death_vacc_countries = {}
    /\ merged = {}
    /\ merged_df = NoTable
    /\ plots = << >>

\* the column Country_Code is mapped from Entity and the rows are filtered
FilterCountries ==
    /\ stage = "merge"
    /\ covid_death_vacc_countries' =
         {[Entity |-> r.Entity, Year |-> r.Year,
           Country_Code |-> get_country_code_mapping(r.Entity)] :
             r \in {q \in covid_death_vacc : IsCountryCode(get_country_code_mapping(q.Entity))}}
    /\ stage' = "filtered"
    /\ UNCHANGED <<loaderVars, covid_death_vacc, oecd_health, merged, merged_df, plots>>

common_codes ==
    {r.Country_Code.chars : r \in covid_death_vacc_countries}
        \cap {o.Country_Code : o \in oecd_health}

\* if not common_codes: sys.exit(1)
NoCommonCodes ==
    /\ stage = "filtered"
    /\ common_codes = {}
    /\ stage' = "exit"
    /\ UNCHANGED <<loaderVars, covid_death_vacc, oecd_health, covid_death_vacc_countries,
                   merged, merged_df, plots>>

\* pd.merge(..., on=['Country_Code', 'Year'], how='inner'); the two left
\* joins (doses by manufacturer, US death rates) add columns and may repeat
\* a row per manufacturer, they neither drop a row nor bring in an entity;
\* the result is saved and returned
InnerJoin(left, right) ==
    {r \in left : \E o \in right :
        o.Country_Code = r.Country_Code.chars /\ o.Year = r.Year}

MergeDatasets ==
    /\ stage = "filtered"
    /\ common_codes # {}
    /\ merged' = InnerJoin(covid_death_vacc_countries, oecd_health)
    /\ stage' = "returned"
    /\ UNCHANGED <<loaderVars, covid_death_vacc, oecd_health, covid_death_vacc_countries,
                   merged_df, plots>>

NextMerge ==
    \/ FilterCountries
    \/ NoCommonCodes
    \/ MergeDatasets

SpecMerge == InitMerge /\ [][NextMerge]_vars

\* ---- src/Scripts/DataProcess.py: perform_analysis -------------------------
\* key_columns, in the order of the list: COVID_Doses_per_Hundred,
\* Daily_Deaths_per_Million, Health_Expenditure_Percentage_GDP
key_columns == <<"COVID_Doses_per_Hundred", "Daily_Deaths_per_Million",
                 "Health_Expenditure_Percentage_GDP">>

\* What a key column of the table can be: absent, of a numeric dtype, or of
\* dtype object (read_csv met a cell that is no number)
ColumnKinds == {"missing", "numeric", "object"}

AnalysisTables ==
    {[empty |-> e, columns |-> c] :
        e \in BOOLEAN, c \in [1..Len(key_columns) -> ColumnKinds]}

InitAnalysis ==
    /\ LoaderIdle
    /\ stage = "enter"
    /\ covid_death_vacc = {}
    /\ oecd_health = {}
    /\ covid_death_vacc_countries = {}
    /\ merged = {}
    /\ merged_df \in AnalysisTables
    /\ plots = << >>

\* if merged_df.empty: the error is logged and the function returns
AbortEmpty ==
    /\ stage = "enter"
    /\ merged_df.empty
    /\ stage' = "returned"
    /\ UNCHANGED <<loaderVars, covid_death_vacc, oecd_health, covid_death_vacc_countries,
                   merged, merged_df, plots>>

\* merged_df[col] raises KeyError for an absent column, np.isinf raises
\* TypeError for a column of dtype object
ColumnCheckRaises(kind) == kind \in {"missing", "object"}

\* for col in key_columns: isnull().any() and np.isinf(...).any(); the loop
\* stands in no try statement
CheckKeyColumns ==
    /\ stage = "enter"
    /\ ~merged_df.empty
    /\ stage' = IF \E k \in 1..Len(key_columns) : ColumnCheckRaises(merged_df.columns[k])
                THEN "raised" ELSE "plot"
    /\ UNCHANGED <<loaderVars, covid_death_vacc, oecd_health, covid_death_vacc_countries,
                   merged, merged_df, plots>>

\* one plot step: its try block runs through, or raises an Exception that the
\* step's own except clause logs
PlotStep ==
    /\ stage = "plot"
    /\ Len(plots) < NumPlots
    /\ \E ok \in BOOLEAN :
         plots' = Append(plots, [step |-> Len(plots) + 1, saved |-> ok])
    /\ UNCHANGED <<loaderVars, stage, covid_death_vacc, oecd_health,
                   covid_death_vacc_countries, merged, merged_df>>

\* after the seventh step: "Data analysis and visualizations completed."
AnalysisReturns ==
    /\ stage = "plot"
    /\ Len(plots) = NumPlots
    /\ stage' = "returned"
    /\ UNCHANGED <<loaderVars, covid_death_vacc, oecd_health, covid_death_vacc_countries,
                   merged, merged_df, plots>>

NextAnalysis ==
    \/ AbortEmpty
    \/ CheckKeyColumns
    \/ PlotStep
    \/ AnalysisReturns

SpecAnalysis == InitAnalysis /\ [][NextAnalysis]_vars

TypeOK ==
    /\ variant \in Variants
    /\ pc \in {"import", "menu", "open", "call", "detect", "loop", "validate", "return", "done"}
    /\ file \in FileKinds \cup {"none"}
    /\ validation \in {"none", "ok", "failed", "error"}
    /\ opens \in 0..1
    /\ result \in {"running", "returned", "raised", "config_error"}
    /\ job \in Jobs
    /\ i \in 0..(MaxRecords + MaxBatch)

\* ---- what the claims speak about -----------------------------------------
RECURSIVE Flatten(_)
Flatten(subs) ==
    IF subs = << >> THEN << >>
    ELSE Flatten(SubSeq(subs, 1, Len(subs) - 1)) \o subs[Len(subs)].batch

RECURSIVE SumOver(_, _)
SumOver(f, n) == IF n = 0 THEN 0 ELSE SumOver(f, n - 1) + f[n]

NumRead == Len(data_records)
NumBatches == CeilDiv(NumRead, batch_size)
JobLoaded == outcome[job] \in {"running", "completed"}
LoopLeft == JobLoaded /\ pc # "loop"
Kinds == {submitted[k].result : k \in 1..Len(submitted)}
Sizes == [k \in 1..Len(submitted) |-> Len(submitted[k].batch)]
Rejected(k) == Range(submitted[k].batch) \cap dup
LastSize == IF NumRead % batch_size = 0 THEN batch_size ELSE NumRead % batch_size

\* C1: the batch loop forms exactly ceil(N/B) batches, each of B records but
\* the last (N mod B, or B when that is 0); the batches submitted so far are
\* a prefix of the record sequence, and once the loop is left every record is
\* in exactly one batch and the batches concatenated are the record sequence.
C1_BatchPartition ==
    JobLoaded =>
        LET flat == Flatten(submitted) IN
        /\ Len(submitted) <= NumBatches
        /\ Len(flat) <= NumRead
        /\ flat = SubSeq(data_records, 1, Len(flat))
        /\ \A k \in 1..Len(submitted) :
             Sizes[k] = IF k < NumBatches THEN batch_size ELSE LastSize
        /\ LoopLeft =>
             /\ Len(submitted) = NumBatches
             /\ flat = data_records
             /\ \A r \in Range(data_records) :
                  Cardinality({k \in 1..Len(submitted) : r \in Range(submitted[k].batch)}) = 1

C1_Witness ==
    /\ outcome[job] = "completed"
    /\ NumRead = 5
    /\ batch_size = 2
    /\ Sizes = <<2, 2, 1>>

\* C2: batch size 2, 5 records, only the record at 0-based index 3 rejected
\* for uniqueness and no other failure: three batches of sizes 2, 2, 1 and
\* the totals inserted = 4, failed = 1 (read = 5).
C2_ScenarioTotals ==
    ( /\ variant = "notebooks"
      /\ outcome[job] = "completed"
      /\ batch_size = 2
      /\ NumRead = 5
      /\ dup = {4}
      /\ "error" \notin Kinds )
    => /\ Sizes = <<2, 2, 1>>
       /\ total_inserted = 4
       /\ total_errors = 1

\* C3: in a job whose batches each were accepted whole or had exactly one
\* record rejected (BulkWriteError with one write error), the inserted total
\* counts every record but the rejected ones and the failed total counts one
\* failure per rejected record.
C3_PartialFailureIsolation ==
    ( /\ variant = "notebooks"
      /\ JobLoaded
      /\ \A k \in 1..Len(submitted) :
           \/ submitted[k].result = "ok"
           \/ submitted[k].result = "bulk" /\ Cardinality(Rejected(k)) = 1 )
    => /\ total_inserted =
            SumOver([k \in 1..Len(submitted) |-> Sizes[k] - Cardinality(Rejected(k))],
                    Len(submitted))
       /\ total_errors = Cardinality({k \in 1..Len(submitted) : submitted[k].result = "bulk"})

\* C4: whatever the outcome of a batch's insert, the later batches are still
\* submitted: the submissions of a job carry the batch numbers 1, 2, 3, ... in
\* order, and once the loop is left there are exactly ceil(N/B) of them.
C4_EveryBatchSubmitted ==
    JobLoaded =>
        /\ \A k \in 1..Len(submitted) : submitted[k].index = k
        /\ pc = "loop" => Len(submitted) = CeilDiv(Min(i, NumRead), batch_size)
        /\ LoopLeft => Len(submitted) = NumBatches

C4_Witness ==
    /\ LoopLeft
    /\ Len(submitted) = 3
    /\ submitted[1].result = "error"
    /\ submitted[2].result = "bulk"
    /\ submitted[3].result = "ok"

\* C5: when every insert from some batch on raised a general exception (the
\* connection was severed), the failed total of the finished job counts at
\* least every record not yet attempted at that point; and a "load all" run
\* whose connection was severed still calls load_csv_to_mongo for every later job.
C5_SeveredConnection ==
    /\ ( variant = "notebooks" /\ LoopLeft ) =>
         \A k \in 1..Len(submitted) :
            (\A m \in k..Len(submitted) : submitted[m].result = "error")
            => total_errors >= NumRead - Len(Flatten(SubSeq(submitted, 1, k - 1)))
    /\ ( mode = "all" /\ severed /\ pc = "done" ) =>
         attempted = [k \in 1..NumJobs |-> k]

C5_Witness ==
    /\ variant = "notebooks"
    /\ outcome[job] = "completed"
    /\ severed
    /\ Len(submitted) = 3
    /\ submitted[1].result = "ok"
    /\ submitted[2].result = "error"
    /\ submitted[3].result = "error"
    /\ total_errors = Sizes[2] + Sizes[3]

Ended == {"skipped", "critical", "completed"}
ErrorCount(k) ==
    IF submitted[k].result = "error" THEN Sizes[k]
    ELSE IF submitted[k].result = "bulk" THEN Cardinality(Rejected(k))
    ELSE 0

C7_TotalsBounded ==
    JobLoaded => total_inserted + total_errors <= NumRead

C7_Witness ==
    /\ variant = "notebooks"
    /\ outcome[job] = "completed"
    /\ Kinds = {"ok", "bulk", "error"}
    /\ total_inserted > 0
    /\ total_errors > 0
    /\ total_inserted + total_errors < NumRead

\* C8 as stated: in a "load all" run every job of the mapping is attempted
\* exactly once, in mapping order.
C8_AllJobsAttempted ==
    ( mode = "all" /\ pc = "done" ) => attempted = [k \in 1..NumJobs |-> k]

\* C8 amended: in a "load all" run in which the store client was opened, the
\* jobs are attempted in mapping order without repetition, every job before
\* the current one has ended, and at the end every job of the mapping has
\* been attempted exactly once, whatever happened in each of them.
C8_AllJobsAttemptedOnceOpened ==
    mode = "all" =>
        /\ attempted = [k \in 1..Len(attempted) |-> k]
        /\ ( pc = "done" /\ opens > 0 ) =>
             /\ attempted = [k \in 1..NumJobs |-> k]
             /\ \A k \in Jobs : outcome[k] \in Ended

C8_Witness ==
    /\ mode = "all"
    /\ pc = "done"
    /\ severed
    /\ outcome[1] = "skipped"
    /\ outcome[2] = "critical"
    /\ outcome[3] = "completed"
    /\ attempted = <<1, 2, 3, 4>>
    /\ "error" \in Kinds

\* C9: jobs never interleave: while job j is loaded no later job has started
\* or written anything, every earlier job has ended, and a job that completed
\* had every one of its batches attempted before the next job is called.
C9_NoInterleaving ==
    mode = "all" =>
        /\ \A k \in Jobs : k > job => outcome[k] = "pending" /\ stored[k] = {}
        /\ \A k \in Jobs : k < job => outcome[k] \in Ended
        /\ \A k \in Jobs : outcome[k] = "running" => k = job /\ pc = "loop"
        /\ ( pc \in {"return", "call"} /\ outcome[IF pc = "call" /\ job > 1 THEN job - 1 ELSE job] = "completed" )
             => /\ i >= NumRead
                /\ Len(submitted) = NumBatches

C9_Witness ==
    /\ mode = "all"
    /\ pc = "loop"
    /\ job = 2
    /\ outcome[1] = "completed"
    /\ stored[1] # {}
    /\ Len(submitted) = 1
    /\ Len(data_records) = 2
    /\ batch_size = 1

\* C10: main() never raises, whatever the menu input and whatever fails
\* while opening the client, reading a file or inserting.
C10_MainNeverRaises ==
    result # "raised"

InsertedCount(k) == IF submitted[k].result = "ok" THEN Sizes[k] ELSE 0
SumInserted == SumOver([k \in 1..Len(submitted) |-> InsertedCount(k)], Len(submitted))
SumErrors == SumOver([k \in 1..Len(submitted) |-> ErrorCount(k)], Len(submitted))
AllJobs == [k \in 1..NumJobs |-> k]

\* C11: a job whose source path is missing or unreadable returns without
\* raising, without parsing and without any insert (its collection is left
\* as it was), and a "load all" run goes on to the jobs after it.
C11_MissingFileSkipped ==
    /\ ( file \in {"missing", "unreadable"} /\ outcome[job] # "pending" ) =>
         /\ outcome[job] = "skipped"
         /\ data_records = << >>
         /\ submitted = << >>
         /\ stored[job] = {}
         /\ pc \in {"return", "done"}
         /\ result # "raised"
    /\ ( mode = "all" /\ pc = "done" /\ \E k \in Jobs : outcome[k] = "skipped" ) =>
         attempted = AllJobs

C11_Witness ==
    /\ mode = "all"
    /\ pc = "loop"
    /\ job = 3
    /\ outcome[1] = "skipped"
    /\ outcome[2] = "skipped"
    /\ stored[1] = {}
    /\ stored[2] = {}
    /\ stored[3] # {}

\* C12: when the connection string or the database name is absent or empty
\* the process ends with the configuration error before the menu: no client
\* is ever opened, no job is attempted and no insert is issued.
C12_RefusesToStart ==
    ( mongo_uri # "set" \/ database_name # "set" ) =>
        /\ pc \in {"import", "done"}
        /\ pc = "done" => result = "config_error"
        /\ mode = "none"
        /\ opens = 0
        /\ ~clientOpen
        /\ attempted = << >>
        /\ submitted = << >>
        /\ \A k \in Jobs : stored[k] = {}

C12_Witness ==
    /\ mongo_uri = "set"
    /\ database_name = "empty"
    /\ pc = "done"
    /\ result = "config_error"

\* C13: at the end of a "load all" run the closing summary carries the files
\* attempted, the total inserted and the total failed, equal to the sums
\* over the jobs.
C13_FinalSummary ==
    ( mode = "all" /\ pc = "done" /\ opens > 0 ) =>
        /\ Len(summary) = 3
        /\ summary[1] = Len(attempted)
        /\ summary[2] = SumOver([k \in Jobs |-> Cardinality(stored[k])], NumJobs)

\* C18: the post-insertion validation happens only after every batch of the
\* job was attempted; whether it passes, fails or its count call raises, the
\* job stays completed, both totals are what the batches alone made them,
\* and main() goes on and returns.
C18_ValidationOnlyLogged ==
    validation # "none" =>
        /\ variant = "notebooks"
        /\ outcome[job] = "completed"
        /\ i >= NumRead
        /\ Len(submitted) = NumBatches
        /\ total_inserted = SumInserted
        /\ total_errors = SumErrors
        /\ pc \in {"return", "done"}
        /\ result # "raised"
        /\ pc = "done" => result = "returned"

C18_Witness ==
    /\ validation = "failed"
    /\ count_in_db < NumRead - total_errors
    /\ total_inserted > 0
    /\ pc = "done"
    /\ result = "returned"

C20_GeneralErrorStep ==
    [][ ( /\ variant = "notebooks"
          /\ pc = "loop"
          /\ Len(submitted') = Len(submitted) + 1
          /\ submitted'[Len(submitted')].result = "error" )
        => /\ total_errors' = total_errors + Len(Batch)
           /\ total_inserted' = total_inserted
           /\ stored' = stored
           /\ pc' = "loop"
           /\ i' = i + batch_size ]_vars

C20_Witness ==
    /\ variant = "notebooks"
    /\ pc = "loop"
    /\ Len(submitted) = 2
    /\ submitted[1].result = "error"
    /\ submitted[2].result = "bulk"
    /\ total_errors = Sizes[1] + Cardinality(Rejected(2))
    /\ ~LoopExhausted

WriteErrors == Cardinality(dup \cap UNION {Range(submitted[k].batch) : k \in 1..Len(submitted)})

\* C21: every batch is an unordered bulk insert: of a batch with rejected
\* records every other record, those after a rejected one included, is
\* written, no rejected record is, and the failures reported are all the
\* rejected records of the batch, not only the first.
C21_UnorderedBulkInsert ==
    JobLoaded =>
        /\ \A k \in 1..Len(submitted) :
             submitted[k].result = "bulk" =>
                /\ Rejected(k) # {}
                /\ Range(submitted[k].batch) \ Rejected(k) \subseteq stored[job]
                /\ Rejected(k) \cap stored[job] = {}
        /\ ( variant = "notebooks" /\ "error" \notin Kinds ) => total_errors = WriteErrors

C21_Witness ==
    /\ variant = "notebooks"
    /\ outcome[job] = "completed"
    /\ batch_size = 3
    /\ Len(submitted) = 2
    /\ submitted[1].result = "bulk"
    /\ Rejected(1) = {1, 2}
    /\ 3 \in stored[job]
    /\ submitted[2].result = "bulk"
    /\ Rejected(2) = {4}
    /\ stored[job] = {3, 5}
    /\ total_errors = 3

\* C22: nothing is ever rolled back: in every step, whatever fails in it,
\* each collection keeps every document it received from an earlier batch of
\* the same job or from an earlier job.
C22_NoRollback ==
    [][ \A k \in Jobs : stored[k] \subseteq stored'[k] ]_vars

C22_Witness ==
    /\ mode = "all"
    /\ job = 3
    /\ outcome[1] = "completed"
    /\ stored[1] # {}
    /\ outcome[2] = "critical"
    /\ pc = "loop"
    /\ Len(submitted) = 2
    /\ submitted[1].result = "ok"
    /\ submitted[2].result = "error"
    /\ stored[3] = Range(submitted[1].batch)

\* C23: a run constructs at most one store client and every job of the run
\* is called with it: the client is open whenever a job is called, inserts,
\* validates or returns, and when main() is left, by returning or by an
\* exception that escaped a job, the client is closed.
C23_OneClientPerRun ==
    /\ opens <= 1
    /\ clientOpen => opens = 1
    /\ attempted # << >> => opens = 1
    /\ pc \in {"call", "loop", "validate", "return"} => clientOpen
    /\ pc = "done" => ~clientOpen

C23_Witness ==
    /\ mode = "all"
    /\ pc = "done"
    /\ result = "raised"
    /\ opens = 1
    /\ ~clientOpen
    /\ attempted = <<1, 2>>
    /\ stored[1] # {}
    /\ outcome[2] = "interrupted"

\* C25: the menu of main(): choice 0 runs every job of the mapping, a choice
\* i from 1 to the number of jobs runs the i-th job and no other, and any
\* other answer opens no client and issues no insert.
C25_MenuDispatch ==
    ( pc = "done" /\ choice # << >> ) =>
        LET inp == choice[1] IN
        IF inp.numeric /\ inp.n = 0 THEN attempted = AllJobs
        ELSE IF inp.numeric /\ inp.n \in Jobs THEN attempted = <<inp.n>>
        ELSE opens = 0 /\ attempted = << >> /\ \A k \in Jobs : stored[k] = {}

\* C26: no insert_many call receives an empty batch: every submitted batch
\* holds between 1 and batch_size records, and a file without data rows ends
\* as completed with no insert issued and both totals at zero.
C26_NoEmptyBatch ==
    JobLoaded =>
        /\ \A k \in 1..Len(submitted) : 1 <= Sizes[k] /\ Sizes[k] <= batch_size
        /\ ( NumRead = 0 /\ LoopLeft ) =>
             /\ submitted = << >>
             /\ stored[job] = {}
             /\ outcome[job] = "completed"
             /\ total_inserted = 0
             /\ total_errors = 0

C26_Witness ==
    /\ variant = "notebooks"
    /\ file = "readable"
    /\ NumRead = 0
    /\ outcome[job] = "completed"
    /\ submitted = << >>
    /\ pc = "done"

\* C27: when the count the store returns is not below what this job wrote
\* (no document was removed meanwhile), the post-insertion check passes:
\* the count is at least records read minus total_errors, whatever the
\* collection held before and however the batches ended.
C27_ValidationPasses ==
    ( validation \in {"ok", "failed"} /\ count_in_db >= Cardinality(stored[job]) ) =>
        /\ count_in_db >= NumRead - total_errors
        /\ validation = "ok"

C27_Witness ==
    /\ validation = "ok"
    /\ Kinds = {"ok", "bulk", "error"}
    /\ count_in_db = Cardinality(stored[job])
    /\ count_in_db = NumRead - total_errors
    /\ total_errors = 3

\* C28: a batch_size of zero or less never leads to an insert and never
\* raises to the caller: with 0 the job of a readable file ends in the
\* critical-error branch, with a negative size it ends as completed with
\* zero batches and both totals at zero, whatever number of records was read.
C28_NonPositiveBatchSize ==
    ( batch_size <= 0 /\ outcome[job] # "pending" ) =>
        /\ submitted = << >>
        /\ stored[job] = {}
        /\ result # "raised"
        /\ ( file = "readable" /\ pc # "loop" ) =>
             IF batch_size = 0
             THEN outcome[job] = "critical" /\ validation = "none"
             ELSE /\ outcome[job] = "completed"
                  /\ total_inserted = 0
                  /\ total_errors = 0

C28_Witness ==
    /\ batch_size < 0
    /\ NumRead = 5
    /\ outcome[job] = "completed"
    /\ submitted = << >>
    /\ pc = "done"
    /\ result = "returned"

Groupings ==
    {"Africa", "Asia", "Europe", "European Union (27)", "North America", "Oceania",
     "South America", "World", "Low-income countries", "Lower-middle-income countries",
     "Upper-middle-income countries", "High-income countries"}

\* C29: the dataset merge_datasets returns holds individual countries only:
\* no row belongs to a region or income grouping, and the Country_Code of
\* every row is a string of three letters that the OECD data holds for the
\* row's year.
C29_OnlyCountries ==
    stage = "returned" =>
        \A r \in merged :
            /\ r.Entity \notin Groupings
            /\ r.Country_Code.isstr
            /\ Len(r.Country_Code.chars) = 3
            /\ \E o \in oecd_health :
                 o.Country_Code = r.Country_Code.chars /\ o.Year = r.Year

\* C30: perform_analysis on a non-empty table that has the three key
\* columns attempts each of the seven plot steps once, in order, whatever the
\* earlier steps did, and returns; on an empty table it attempts no plot step.
C30_PlotFailuresIsolated ==
    /\ merged_df.empty => plots = << >>
    /\ ( ~merged_df.empty /\ \A k \in 1..Len(key_columns) : merged_df.columns[k] # "missing" ) =>
         /\ stage # "raised"
         /\ \A k \in 1..Len(plots) : plots[k].step = k
         /\ stage = "returned" => Len(plots) = NumPlots

ValidDates == {"2021-03-04", "2021-03-05"}
Canonical(text) ==
    IF text = "2021-03-04" THEN [kind |-> "ts", v |-> "2021-03-04 00:00:00"]
    ELSE [kind |-> "ts", v |-> "2021-03-05 00:00:00"]
Missing == [kind |-> "none", v |-> ""]
BadRows == {k \in 1..Len(table.cells) : table.cells[k] \notin ValidDates}

\* C14: three rows, column report_date, one row with a text that is no date,
\* the store accepting every document: that row's report_date is missing,
\* the two other rows hold the timestamps of their dates, and the job ends
\* with records read = 3, inserted = 3, failed = 0.
C14_CoercionIsNoInsertFailure ==
    ( /\ outcome[job] = "completed"
      /\ table.name = report_date
      /\ Len(table.cells) = 3
      /\ Cardinality(BadRows) = 1
      /\ \A k \in BadRows : table.cells[k] = "soon" )
    => /\ Len(df) = 3
       /\ \A k \in 1..3 :
            df[k] = IF k \in BadRows THEN Missing ELSE Canonical(table.cells[k])
       /\ NumRead = 3
       /\ total_inserted = 3
       /\ total_errors = 0

C14_Witness ==
    /\ outcome[job] = "completed"
    /\ table.name = report_date
    /\ table.cells = <<"2021-03-04", "soon", "2021-03-05">>
    /\ df[2] = Missing
    /\ df[3] = Canonical("2021-03-05")
    /\ total_inserted = 3
    /\ total_errors = 0
    /\ pc = "done"

C15_MissingNormalization ==
    JobLoaded =>
        \A k \in 1..Len(df) :
            /\ table.cells[k] \in {"", " "} => df[k] = Missing
            /\ table.cells[k] = "0" => df[k] # Missing

\* C16: the date/time conversion applied to the loader's own output, where
\* the cells are timestamps and missing markers, gives that output back.
C16_ConversionIdempotent ==
    JobLoaded => convert_datetime_columns(table.name, df) = df

C16_Witness ==
    /\ JobLoaded
    /\ table.name = TimeName
    /\ df = <<Canonical("2021-03-04"), Missing, Canonical("2021-03-05")>>

\* C17: detect_delimiter returns a delimiter for every file, and the comma
\* whenever opening, reading or sniffing the file failed.
C17_DelimiterNeverFails ==
    pc # "detect" =>
        /\ delimiter \in {",", ";", "\t"}
        /\ sample \in {"missing", "unreadable", "undecodable", "empty", "ambiguous"}
             => delimiter = ","
        /\ result # "raised"

C17_Witness ==
    /\ sample = "undecodable"
    /\ delimiter = ","
    /\ pc = "return"
    /\ outcome[job] = "critical"

====
